---- MODULE Spec2Model ----
(***************************************************************************)
(* Ingredient service (Backend/IngredientServices/routers/ingredients.py). *)
(*                                                                         *)
(* Each request handler is a coroutine; its awaits are the points where    *)
(* another request may run, so one action models one awaited statement     *)
(* together with the synchronous code that follows it.                     *)
(*                                                                         *)
(* Strings that the code compares case-insensitively (ingredient names and *)
(* units) are sequences of character codes; amounts are fixed-point        *)
(* numbers counted in tenths (0.5 is 5, 50 is 500).                        *)
(***************************************************************************)
EXTENDS Integers, Sequences, FiniteSets, TLC

\* ---------------------------------------------------------------- bounds
\* Create calls are accepted while the identity counter is at most MaxId.
MaxId == 2
\* Delete calls are accepted while fewer than MaxOpen connections are open.
MaxOpen == 1

\* Two requests may be in progress at the same time.
Procs == {1, 2}

\* ------------------------------------------------------- strings, inputs
\* str.lower() / the CI collation on the characters used here (A-Z, a-z).
Lower(s) == [i \in DOMAIN s |-> IF s[i] \in 65..90 THEN s[i] + 32 ELSE s[i]]

\* Python None where a string is expected (no character has code -1).
None == <<-1>>

\* "Flour", "flour", "FLOUR", "Salt" shortened to two characters.
Flour == <<70, 108>>
flour == <<102, 108>>
FLOUR == <<70, 76>>
Salt == <<83, 97>>

\* units: "g", "kg", "ml", "l", "KG", "G", "", "xyz"
u_g == <<103>>
u_kg == <<107, 103>>
u_ml == <<109, 108>>
u_l == <<108>>
u_KG == <<75, 71>>
u_G == <<71>>
u_Ml == <<77, 108>>
u_empty == <<>>
u_xyz == <<120, 121, 122>>

\* ------------------------------------------------------ status classifier
thresholds == (u_g :> 500) @@ (u_kg :> 5) @@ (u_ml :> 1000) @@ (u_l :> 5)

get_status_strict(amount, measurement) ==
  LET meas_lower == Lower(IF measurement = None THEN <<>> ELSE measurement)
      limit == IF meas_lower \in DOMAIN thresholds THEN thresholds[meas_lower] ELSE 10
  IN  IF amount <= 0 THEN "Not Available"
      ELSE IF amount < limit THEN "Low Stock"
      ELSE "Available"

get_status(amount, measurement) ==
  LET meas_lower == Lower(IF measurement = None THEN <<>> ELSE measurement)
      limit == IF meas_lower \in DOMAIN thresholds THEN thresholds[meas_lower] ELSE 10
  IN  IF amount <= 0 THEN "Not Available"
      ELSE IF amount <= limit THEN "Low Stock"
      ELSE "Available"

\* ------------------------------------------------------------ the requests
\* IngredientCreate / IngredientUpdate bodies sent by the clients.
Body(n, a, m, b, e) ==
  [IngredientName |-> n, Amount |-> a, Measurement |-> m,
   BestBeforeDate |-> b, ExpirationDate |-> e]

Bodies ==
  { Body(Flour, 0, u_g, 1, 2),
    Body(flour, 300, u_KG, 2, 3),
    Body(Salt, 3, u_kg, 1, 3),
    Body(FLOUR, 500, u_G, 2, 2) }

\* The bodies sent by clients whose requests overlap.
ConcurrentBodies ==
  { Body(Flour, 0, u_g, 1, 2),
    Body(flour, 300, u_KG, 2, 3),
    Body(Salt, 3, u_kg, 1, 3) }

\* Amounts (in tenths) around 0 and around every threshold, and units in
\* several letter cases, for the classifier.
ClassifyAmounts == {-10, 0, 1, 5, 6, 10, 11, 500, 501, 1000, 1001}

ClassifyUnits == {u_g, u_kg, u_ml, u_l, u_KG, u_G, u_Ml, u_empty, u_xyz}

ClassifyBodies == {Body(Salt, a, u, 1, 2) : a \in ClassifyAmounts, u \in ClassifyUnits}

NoBody == Body(<<>>, 0, <<>>, 0, 0)

\* ids a client may name in PUT /{id} and DELETE /{id}
Ids == 1..(MaxId + 1)

\* The ids named by clients whose requests overlap.
ConcurrentIds == {1, 2}

Operations == {"list", "create", "update", "delete"}

allowed_roles_open(o) == {"admin", "manager", "staff", "cashier"}

allowed_roles(o) ==
  IF o = "list" THEN {"admin", "manager", "staff", "cashier"}
  ELSE {"admin", "manager", "staff"}

\* user_data.get("userRole") when the body has no such field
NoRole == "<None>"

\* What the identity service may answer to GET /auth/users/me.
IdentityAnswers ==
  {[kind |-> "unreachable", code |-> 0, userRole |-> NoRole]}
  \cup {[kind |-> "status", code |-> c, userRole |-> NoRole] : c \in {401, 500}}
  \cup {[kind |-> "ok", code |-> 200, userRole |-> r] :
          r \in {"admin", "manager", "staff", "cashier", "guest", NoRole}}

\* The answers given while requests overlap.
ConcurrentAnswers ==
  {[kind |-> "unreachable", code |-> 0, userRole |-> NoRole],
   [kind |-> "ok", code |-> 200, userRole |-> "staff"]}

NoAnswer == [kind |-> "none", code |-> 0, userRole |-> NoRole]

\* ----------------------------------------------------------------- state
VARIABLES
  Ingredients,    \* committed rows of table Ingredients
  nextId,         \* the table's identity counter (next generated IngredientID)
  openConns,      \* database connections opened and not closed
  pc,             \* per request: the statement it is about to run
  op,             \* per request: the endpoint called
  ingredient_id,  \* per request: path parameter
  ingredient,     \* per request: body
  response,       \* per request: the identity service's answer
  conn,           \* per request: local conn is not None
  txn,            \* per request: uncommitted write of its connection
  row,            \* per request: local row (fetchone()); {} is None
  result          \* per request: HTTP response of the handler

vars == <<Ingredients, nextId, openConns, pc, op, ingredient_id, ingredient,
          response, conn, txn, row, result>>

NoRow == [IngredientID |-> 0]
NoTxn == [kind |-> "none", row |-> NoRow]
NoResult == [code |-> 0, body |-> {}]

Init ==
  /\ Ingredients = {}
  /\ nextId = 1
  /\ openConns = 0
  /\ pc = [p \in Procs |-> "idle"]
  /\ op = [p \in Procs |-> "none"]
  /\ ingredient_id = [p \in Procs |-> 0]
  /\ ingredient = [p \in Procs |-> NoBody]
  /\ response = [p \in Procs |-> NoAnswer]
  /\ conn = [p \in Procs |-> FALSE]
  /\ txn = [p \in Procs |-> NoTxn]
  /\ row = [p \in Procs |-> {}]
  /\ result = [p \in Procs |-> NoResult]

\* ------------------------------------------------------- database helpers
IngredientRow(id, b, status_val) ==
  [IngredientID |-> id, IngredientName |-> b.IngredientName, Amount |-> b.Amount,
   Measurement |-> b.Measurement, BestBeforeDate |-> b.BestBeforeDate,
   ExpirationDate |-> b.ExpirationDate, Status |-> status_val]

WithId(rows, id) == {r \in rows : r.IngredientID = id}

\* The rows a request's connection reads: the committed rows and its own
\* uncommitted write.
View(p) ==
  IF txn[p].kind = "insert" THEN Ingredients \cup {txn[p].row}
  ELSE IF txn[p].kind = "update"
    THEN (Ingredients \ WithId(Ingredients, txn[p].row.IngredientID)) \cup {txn[p].row}
  ELSE IF txn[p].kind = "delete"
    THEN Ingredients \ WithId(Ingredients, txn[p].row.IngredientID)
  ELSE Ingredients

\* Another connection holds an uncommitted write of the row with this id:
\* a write to that row waits for it.
Locked(p, id) ==
  \E q \in Procs \ {p} : txn[q].kind # "none" /\ txn[q].row.IngredientID = id

\* SELECT 1 FROM Ingredients WHERE IngredientName COLLATE Latin1_General_CI_AS = ?
NameTakenExact(rows, name) ==
  \E r \in rows : r.IngredientName = name

NameTaken(rows, name) ==
  \E r \in rows : Lower(r.IngredientName) = Lower(name)

\* ... AND IngredientID != ?
NameTakenByAny(rows, name, id) ==
  \E r \in rows : Lower(r.IngredientName) = Lower(name)

NameTakenByOtherExact(rows, name, id) ==
  \E r \in rows : r.IngredientName = name /\ r.IngredientID # id

NameTakenByOther(rows, name, id) ==
  \E r \in rows : Lower(r.IngredientName) = Lower(name) /\ r.IngredientID # id

\* ------------------------------------------------------------- the steps
\* Create calls in progress that have not run their INSERT yet.
Inserting == {q \in Procs : op[q] = "create" /\ pc[q] \in {"auth", "connect", "check"}}

\* A client calls one of the four endpoints.
Request(p, bodies, ids) ==
  /\ pc[p] = "idle"
  /\ \E o \in Operations :
       /\ o = "create" => nextId + Cardinality(Inserting) <= MaxId
       /\ o = "delete" => openConns < MaxOpen
       /\ op' = [op EXCEPT ![p] = o]
       /\ \E b \in (IF o \in {"create", "update"} THEN bodies ELSE {NoBody}) :
            ingredient' = [ingredient EXCEPT ![p] = b]
       /\ \E i \in (IF o \in {"update", "delete"} THEN ids ELSE {0}) :
            ingredient_id' = [ingredient_id EXCEPT ![p] = i]
  /\ pc' = [pc EXCEPT ![p] = "auth"]
  /\ UNCHANGED <<Ingredients, nextId, openConns, response, conn, txn, row, result>>

\* validate_token_and_roles: raise_for_status, the except clauses, the role test
AuthOutcome(a, roles) ==
  IF a.kind = "unreachable" THEN 503
  ELSE IF a.kind = "status" THEN a.code
  ELSE IF a.userRole \notin roles THEN 403
  ELSE 0

\* await validate_token_and_roles(token, [...]): the identity service answers
\* (or cannot be reached) and the validator raises or returns.
ValidateToken(p, answers) ==
  /\ pc[p] = "auth"
  /\ \E a \in answers :
       LET code == AuthOutcome(a, allowed_roles(op[p]))
       IN  /\ response' = [response EXCEPT ![p] = a]
           /\ IF code # 0
                THEN /\ result' = [result EXCEPT ![p] = [code |-> code, body |-> {}]]
                     /\ pc' = [pc EXCEPT ![p] = "done"]
                ELSE /\ result' = result
                     /\ pc' = [pc EXCEPT ![p] = "connect"]
  /\ UNCHANGED <<Ingredients, nextId, openConns, op, ingredient_id, ingredient,
                 conn, txn, row>>

\* conn = await get_db_connection()
Connect(p) ==
  /\ pc[p] = "connect"
  /\ conn' = [conn EXCEPT ![p] = TRUE]
  /\ openConns' = openConns + 1
  /\ pc' = [pc EXCEPT ![p] =
              CASE op[p] = "list" -> "select"
                [] op[p] = "delete" -> "delete"
                [] OTHER -> "check"]
  /\ response' = [response EXCEPT ![p] = NoAnswer]
  /\ UNCHANGED <<Ingredients, nextId, op, ingredient_id, ingredient, txn, row, result>>

\* get_all_ingredients: SELECT ... FROM Ingredients; return the rows
SelectAll(p) ==
  /\ pc[p] = "select"
  /\ result' = [result EXCEPT ![p] = [code |-> 200, body |-> View(p)]]
  /\ pc' = [pc EXCEPT ![p] = "finally"]
  /\ UNCHANGED <<Ingredients, nextId, openConns, op, ingredient_id, ingredient,
                 response, conn, txn, row>>

\* add_ingredient / update_ingredient: the name pre-check
NameClash(p) ==
  IF op[p] = "create"
    THEN NameTaken(View(p), ingredient[p].IngredientName)
    ELSE NameTakenByOther(View(p), ingredient[p].IngredientName, ingredient_id[p])

CheckName(p) ==
  /\ pc[p] = "check"
  /\ IF NameClash(p)
       THEN /\ result' = [result EXCEPT ![p] = [code |-> 409, body |-> {}]]
            /\ pc' = [pc EXCEPT ![p] = "finally"]
       ELSE /\ result' = result
            /\ pc' = [pc EXCEPT ![p] = IF op[p] = "create" THEN "insert" ELSE "update"]
  /\ UNCHANGED <<Ingredients, nextId, openConns, op, ingredient_id, ingredient,
                 response, conn, txn, row>>

\* add_ingredient: status_val, INSERT ... OUTPUT INSERTED.*, row = fetchone()
Insert(p) ==
  /\ pc[p] = "insert"
  /\ LET status_val == get_status(ingredient[p].Amount, ingredient[p].Measurement)
         new == IngredientRow(nextId, ingredient[p], status_val)
     IN  /\ txn' = [txn EXCEPT ![p] = [kind |-> "insert", row |-> new]]
         /\ row' = [row EXCEPT ![p] = {new}]
  /\ nextId' = nextId + 1
  /\ pc' = [pc EXCEPT ![p] = "commit"]
  /\ UNCHANGED <<Ingredients, openConns, op, ingredient_id, ingredient, response,
                 conn, result>>

\* update_ingredient: the row written by UPDATE ... WHERE IngredientID = ?
UpdatedRowStale(old, b) ==
  IngredientRow(old.IngredientID, b, old.Status)

UpdatedRow(old, b) ==
  IngredientRow(old.IngredientID, b, get_status(b.Amount, b.Measurement))

Update(p) ==
  /\ pc[p] = "update"
  /\ ~Locked(p, ingredient_id[p])
  /\ LET hit == WithId(Ingredients, ingredient_id[p])
     IN  IF hit = {}
           THEN txn' = txn
           ELSE \E old \in hit :
                  txn' = [txn EXCEPT ![p] =
                            [kind |-> "update", row |-> UpdatedRow(old, ingredient[p])]]
  /\ pc' = [pc EXCEPT ![p] = "reselect"]
  /\ UNCHANGED <<Ingredients, nextId, openConns, op, ingredient_id, ingredient,
                 response, conn, row, result>>

ReselectUnchecked(p) ==
  /\ pc[p] = "reselect"
  /\ row' = [row EXCEPT ![p] = WithId(View(p), ingredient_id[p])]
  /\ pc' = [pc EXCEPT ![p] = "commit"]
  /\ UNCHANGED <<Ingredients, nextId, openConns, op, ingredient_id, ingredient,
                 response, conn, txn, result>>

\* update_ingredient: SELECT ... WHERE IngredientID = ?; row = fetchone()
Reselect(p) ==
  /\ pc[p] = "reselect"
  /\ LET got == WithId(View(p), ingredient_id[p])
     IN  /\ row' = [row EXCEPT ![p] = got]
         /\ IF got = {}
              THEN /\ result' = [result EXCEPT ![p] = [code |-> 404, body |-> {}]]
                   /\ pc' = [pc EXCEPT ![p] = "finally"]
              ELSE /\ result' = result
                   /\ pc' = [pc EXCEPT ![p] = "commit"]
  /\ UNCHANGED <<Ingredients, nextId, openConns, op, ingredient_id, ingredient,
                 response, conn, txn>>

\* delete_ingredient: DELETE FROM Ingredients WHERE IngredientID = ?; rowcount
Delete(p) ==
  /\ pc[p] = "delete"
  /\ ~Locked(p, ingredient_id[p])
  /\ LET hit == WithId(Ingredients, ingredient_id[p])
     IN  IF hit = {}
           THEN /\ txn' = txn
                /\ result' = [result EXCEPT ![p] = [code |-> 404, body |-> {}]]
                /\ pc' = [pc EXCEPT ![p] = "finally"]
           ELSE /\ \E old \in hit :
                     txn' = [txn EXCEPT ![p] = [kind |-> "delete", row |-> old]]
                /\ result' = result
                /\ pc' = [pc EXCEPT ![p] = "commit"]
  /\ UNCHANGED <<Ingredients, nextId, openConns, op, ingredient_id, ingredient,
                 response, conn, row>>

\* await conn.commit(); return ...
SuccessCode(o) == IF o = "create" THEN 201 ELSE 200

CommitUnique(p) ==
  /\ pc[p] = "commit"
  /\ IF /\ txn[p].kind \in {"insert", "update"}
        /\ NameTakenByOther(Ingredients, txn[p].row.IngredientName, txn[p].row.IngredientID)
       THEN /\ Ingredients' = Ingredients
            /\ result' = [result EXCEPT ![p] = [code |-> 409, body |-> {}]]
       ELSE /\ Ingredients' = View(p)
            /\ result' = [result EXCEPT ![p] =
                            [code |-> SuccessCode(op[p]),
                             body |-> IF op[p] = "delete" THEN {} ELSE row[p]]]
  /\ txn' = [txn EXCEPT ![p] = NoTxn]
  /\ pc' = [pc EXCEPT ![p] = "finally"]
  /\ UNCHANGED <<nextId, openConns, op, ingredient_id, ingredient, response,
                 conn, row>>

Commit(p) ==
  /\ pc[p] = "commit"
  /\ Ingredients' = View(p)
  /\ txn' = [txn EXCEPT ![p] = NoTxn]
  /\ result' = [result EXCEPT ![p] =
                  [code |-> SuccessCode(op[p]),
                   body |-> IF op[p] = "delete" THEN {} ELSE row[p]]]
  /\ pc' = [pc EXCEPT ![p] = "finally"]
  /\ UNCHANGED <<nextId, openConns, op, ingredient_id, ingredient, response,
                 conn, row>>

\* finally: if conn: await conn.close()      (list, create, update)
\* finally: if conn: await conn.close        (delete: the method is not called;
\*          awaiting the method object raises TypeError, which replaces the
\*          return value or the HTTPException: the response is 500)
Finally(p) ==
  /\ pc[p] = "finally"
  /\ IF op[p] = "delete"
       THEN /\ result' = [result EXCEPT ![p] = [code |-> 500, body |-> {}]]
            /\ UNCHANGED <<openConns, conn, txn>>
       ELSE /\ openConns' = openConns - 1
            /\ conn' = [conn EXCEPT ![p] = FALSE]
            /\ txn' = [txn EXCEPT ![p] = NoTxn]
            /\ result' = result
  /\ pc' = [pc EXCEPT ![p] = "done"]
  /\ UNCHANGED <<Ingredients, nextId, op, ingredient_id, ingredient, response, row>>

\* The response has been sent; the handler's locals are gone.
Return(p) ==
  /\ pc[p] = "done"
  /\ pc' = [pc EXCEPT ![p] = "idle"]
  /\ op' = [op EXCEPT ![p] = "none"]
  /\ ingredient_id' = [ingredient_id EXCEPT ![p] = 0]
  /\ ingredient' = [ingredient EXCEPT ![p] = NoBody]
  /\ conn' = [conn EXCEPT ![p] = FALSE]
  /\ row' = [row EXCEPT ![p] = {}]
  /\ result' = [result EXCEPT ![p] = NoResult]
  /\ response' = [response EXCEPT ![p] = NoAnswer]
  /\ UNCHANGED <<Ingredients, nextId, openConns, txn>>

Step(p) ==
  \/ Connect(p) \/ SelectAll(p) \/ CheckName(p) \/ Insert(p) \/ Update(p)
  \/ Reselect(p) \/ Delete(p) \/ Commit(p) \/ Finally(p) \/ Return(p)

\* Requests are handled concurrently: their steps interleave.
Next ==
  \E p \in Procs :
    \/ Request(p, ConcurrentBodies, ConcurrentIds)
    \/ ValidateToken(p, ConcurrentAnswers)
    \/ Step(p)

Spec == Init /\ [][Next]_vars

\* Requests are handled one at a time.
SerialRequest(p) ==
  /\ \A q \in Procs : pc[q] = "idle"
  /\ Request(p, Bodies, Ids)

SerialNext ==
  \E p \in Procs :
    \/ SerialRequest(p)
    \/ ValidateToken(p, IdentityAnswers)
    \/ Step(p)

SerialSpec == Init /\ [][SerialNext]_vars

\* One at a time, with bodies that cover the classifier's cases.
ClassifyRequest(p) ==
  /\ \A q \in Procs : pc[q] = "idle"
  /\ Request(p, ClassifyBodies, ConcurrentIds)

ClassifyNext ==
  \E p \in Procs :
    \/ ClassifyRequest(p)
    \/ ValidateToken(p, ConcurrentAnswers)
    \/ Step(p)

ClassifySpec == Init /\ [][ClassifyNext]_vars

\* ================================================================ claims
\* Two names are equal case-insensitively.
CIEqual(a, b) == Lower(a) = Lower(b)

\* classify(amount, unit) as the specification states it (amounts in tenths).
ClassifyRef(amount, unit) ==
  LET u == Lower(unit)
      threshold == CASE u = <<103>> -> 500
                     [] u = <<107, 103>> -> 5
                     [] u = <<109, 108>> -> 1000
                     [] u = <<108>> -> 5
                     [] OTHER -> 10
  IN  CASE amount <= 0 -> "Not Available"
        [] amount > 0 /\ amount <= threshold -> "Low Stock"
        [] OTHER -> "Available"

IdsOf(rows) == {r.IngredientID : r \in rows}

\* The caller of request p passed the token validator.
Permitted(p) ==
  /\ pc[p] \notin {"idle", "auth"}
  /\ response[p].kind \in {"none", "ok"}
  /\ response[p].kind = "ok" => response[p].userRole \in allowed_roles(op[p])

\* The record a create or update request asks for, under the given id.
Requested(p, id) ==
  [IngredientID |-> id,
   IngredientName |-> ingredient[p].IngredientName,
   Amount |-> ingredient[p].Amount,
   Measurement |-> ingredient[p].Measurement,
   BestBeforeDate |-> ingredient[p].BestBeforeDate,
   ExpirationDate |-> ingredient[p].ExpirationDate,
   Status |-> ClassifyRef(ingredient[p].Amount, ingredient[p].Measurement)]

\* ---------------------------------------------------------------- C1
C1_Clash(p) ==
  \E r \in Ingredients : CIEqual(r.IngredientName, ingredient[p].IngredientName)

C1_Step(p) ==
  /\ pc[p] = "check" /\ pc'[p] # "check" =>
       /\ Ingredients' = Ingredients
       /\ IF C1_Clash(p)
            THEN pc'[p] = "finally" /\ result'[p] = [code |-> 409, body |-> {}]
            ELSE pc'[p] = "insert"
  /\ pc[p] = "insert" /\ pc'[p] # "insert" =>
       pc'[p] = "commit" /\ Ingredients' = Ingredients
  /\ pc[p] = "commit" /\ pc'[p] # "commit" =>
       /\ ~C1_Clash(p)
       /\ pc'[p] = "finally"
       /\ \E id \in 1..(MaxId + 2) :
            /\ id \notin IdsOf(Ingredients)
            /\ Ingredients' = Ingredients \cup {Requested(p, id)}
            /\ result'[p] = [code |-> 201, body |-> {Requested(p, id)}]
  /\ pc[p] = "finally" /\ pc'[p] # "finally" =>
       /\ pc'[p] = "done"
       /\ result'[p] = result[p]
       /\ Ingredients' = Ingredients

\* C1: a permitted Create, run alone, fails with 409 and leaves the table
\* unchanged when a record's name equals the requested name case-insensitively;
\* otherwise it adds exactly one record with the requested fields, a fresh id
\* and status classify(amount, unit), and returns that record with 201.
C1_Create ==
  [][\A p \in Procs : op[p] = "create" => C1_Step(p)]_vars

\* "Flour" is stored and a Create of "flour" has answered 409.
C1_Witness ==
  \E p \in Procs :
    /\ pc[p] = "done" /\ op[p] = "create" /\ result[p].code = 409
    /\ ingredient[p].IngredientName = flour
    /\ \E r \in Ingredients : r.IngredientName = Flour

\* ---------------------------------------------------------------- C2
\* C2: when requests run one at a time, no two distinct records of the table
\* have names that are equal case-insensitively.
C2_UniqueNames ==
  \A r1, r2 \in Ingredients :
    r1 # r2 => ~CIEqual(r1.IngredientName, r2.IngredientName)

\* Two records are stored and an Update to the other record's name in another
\* letter case has answered 409.
C2_Witness ==
  /\ Cardinality(Ingredients) = 2
  /\ \E p \in Procs :
       /\ pc[p] = "done" /\ op[p] = "update" /\ result[p].code = 409
       /\ \E r \in Ingredients :
            /\ r.IngredientID # ingredient_id[p]
            /\ r.IngredientName # ingredient[p].IngredientName
            /\ CIEqual(r.IngredientName, ingredient[p].IngredientName)

\* ---------------------------------------------------------------- C3
\* C3: the name pre-check is the only guard. A Create or Update that passed
\* its pre-check is never refused afterwards: its write is committed and it
\* answers 201/200, also when another request's write of a case-insensitively
\* equal name was committed in between, which leaves two such records.
C3_CheckThenAct ==
  [][\A p \in Procs :
       /\ op[p] \in {"create", "update"} /\ pc[p] \in {"insert", "update", "reselect", "commit"}
            => result'[p].code # 409
       /\ op[p] \in {"create", "update"} /\ pc[p] = "commit" /\ pc'[p] # "commit"
            => /\ result'[p].code = SuccessCode(op[p])
               /\ txn[p].kind # "none" =>
                    /\ txn[p].row \in Ingredients'
                    /\ result'[p].body = {txn[p].row}]_vars

\* A Create and an Update that overlapped have both succeeded and the table
\* holds their two records, whose names are equal case-insensitively.
C3_Witness ==
  \E p, q \in Procs :
    /\ pc[p] = "done" /\ op[p] = "create" /\ result[p].code = 201
    /\ pc[q] = "done" /\ op[q] = "update" /\ result[q].code = 200
    /\ result[p].body \subseteq Ingredients
    /\ result[q].body \subseteq Ingredients
    /\ \E r1 \in result[p].body, r2 \in result[q].body :
         /\ r1.IngredientID # r2.IngredientID
         /\ CIEqual(r1.IngredientName, r2.IngredientName)

\* ---------------------------------------------------------------- C4
C4_Clash(p) ==
  \E r \in Ingredients :
    /\ r.IngredientID # ingredient_id[p]
    /\ CIEqual(r.IngredientName, ingredient[p].IngredientName)

C4_Step(p) ==
  /\ pc[p] = "check" /\ pc'[p] # "check" =>
       /\ Ingredients' = Ingredients
       /\ IF C4_Clash(p)
            THEN pc'[p] = "finally" /\ result'[p] = [code |-> 409, body |-> {}]
            ELSE pc'[p] = "update"
  /\ pc[p] = "update" /\ pc'[p] # "update" =>
       pc'[p] = "reselect" /\ Ingredients' = Ingredients
  /\ pc[p] = "reselect" /\ pc'[p] # "reselect" =>
       pc'[p] = "commit" /\ Ingredients' = Ingredients
  /\ pc[p] = "commit" /\ pc'[p] # "commit" =>
       /\ ~C4_Clash(p)
       /\ pc'[p] = "finally"
       /\ Ingredients' = (Ingredients \ WithId(Ingredients, ingredient_id[p]))
                           \cup {Requested(p, ingredient_id[p])}
       /\ result'[p] = [code |-> 200, body |-> {Requested(p, ingredient_id[p])}]
  /\ pc[p] = "finally" /\ pc'[p] # "finally" =>
       /\ pc'[p] = "done"
       /\ result'[p] = result[p]
       /\ Ingredients' = Ingredients

\* C4: a permitted Update of an existing record A, run alone, fails with 409
\* and leaves the table unchanged when a record with another id has the
\* requested name case-insensitively; otherwise (the name is free or is A's own
\* name in any letter case) it replaces A by the requested values with status
\* classify(amount, unit) under A's id, leaves the other records unchanged and
\* returns the updated record with 200.
C4_Update ==
  [][\A p \in Procs :
       op[p] = "update" /\ WithId(Ingredients, ingredient_id[p]) # {} => C4_Step(p)]_vars

\* An Update of A to its own name in another letter case has succeeded while
\* another record is stored.
C4_Witness ==
  \E p \in Procs :
    /\ pc[p] = "done" /\ op[p] = "update" /\ result[p].code = 200
    /\ result[p].body \subseteq Ingredients
    /\ Cardinality(Ingredients) = 2
    /\ ingredient[p].IngredientName = FLOUR

\* ---------------------------------------------------------------- C5
\* C5 as claimed: a permitted Update with an id that no record has answers 404
\* whatever the requested name.
C5_Original ==
  \A p \in Procs :
    /\ pc[p] = "done" /\ op[p] = "update" /\ Permitted(p)
    /\ WithId(Ingredients, ingredient_id[p]) = {}
    => result[p].code = 404

C5_Step(p) ==
  /\ Ingredients' = Ingredients
  /\ pc[p] = "check" /\ pc'[p] # "check" =>
       IF C1_Clash(p)
         THEN pc'[p] = "finally" /\ result'[p] = [code |-> 409, body |-> {}]
         ELSE pc'[p] = "update"
  /\ pc[p] = "update" /\ pc'[p] # "update" => pc'[p] = "reselect"
  /\ pc[p] = "reselect" /\ pc'[p] # "reselect" =>
       pc'[p] = "finally" /\ result'[p] = [code |-> 404, body |-> {}]
  /\ pc[p] = "finally" /\ pc'[p] # "finally" =>
       pc'[p] = "done" /\ result'[p] = result[p]

\* C5 (amended): a permitted Update, run alone, with an id that no record has
\* leaves the table unchanged and answers 409 when some record has the
\* requested name case-insensitively, and 404 otherwise.
C5_MissingId ==
  [][\A p \in Procs :
       op[p] = "update" /\ WithId(Ingredients, ingredient_id[p]) = {} => C5_Step(p)]_vars

\* An Update of a missing id has answered 404 while other records are stored.
C5_Witness ==
  \E p \in Procs :
    /\ pc[p] = "done" /\ op[p] = "update" /\ result[p].code = 404
    /\ Ingredients # {}
    /\ WithId(Ingredients, ingredient_id[p]) = {}

\* ---------------------------------------------------------------- C6
C6_Step(p) ==
  /\ pc[p] = "delete" /\ pc'[p] # "delete" =>
       /\ Ingredients' = Ingredients
       /\ IF WithId(Ingredients, ingredient_id[p]) # {}
            THEN pc'[p] = "commit"
            ELSE pc'[p] = "finally" /\ result'[p] = [code |-> 404, body |-> {}]
  /\ pc[p] = "commit" /\ pc'[p] # "commit" =>
       /\ pc'[p] = "finally"
       /\ Ingredients' = Ingredients \ WithId(Ingredients, ingredient_id[p])
       /\ result'[p].code = 200
  /\ pc[p] = "finally" /\ pc'[p] # "finally" =>
       /\ pc'[p] = "done"
       /\ result'[p] = result[p]
       /\ Ingredients' = Ingredients

\* C6: a permitted Delete, run alone, removes exactly the record with the given
\* id and returns a confirmation (200) when that record exists, and answers 404
\* and leaves the table unchanged when it does not.
C6_Delete ==
  [][\A p \in Procs : op[p] = "delete" => C6_Step(p)]_vars

\* ---------------------------------------------------------------- C7
C7_AllowList(o) ==
  IF o = "list" THEN {"admin", "manager", "staff", "cashier"}
  ELSE {"admin", "manager", "staff"}

C7_Step(p) ==
  /\ pc[p] = "auth" /\ pc'[p] # "auth" =>
       /\ Ingredients' = Ingredients
       /\ openConns' = openConns
       /\ ~conn'[p]
       /\ IF response'[p].kind = "unreachable"
            THEN pc'[p] = "done" /\ result'[p].code = 503
          ELSE IF response'[p].kind = "status"
            THEN pc'[p] = "done" /\ result'[p].code = response'[p].code
          ELSE IF response'[p].userRole \notin C7_AllowList(op[p])
            THEN pc'[p] = "done" /\ result'[p].code = 403
          ELSE response'[p].kind = "ok" /\ pc'[p] = "connect"
  /\ pc'[p] = "connect" /\ pc[p] # "connect" => pc[p] = "auth"
  /\ conn'[p] /\ ~conn[p] => pc[p] = "connect"
  /\ pc[p] = "done" /\ pc'[p] # "done" => pc'[p] = "idle"
  /\ pc'[p] \in {"select", "check", "insert", "update", "reselect", "delete", "commit"}
       => conn'[p]

\* C7: every operation runs the token validator before it opens a database
\* connection, and goes on to its data operation only when the identity service
\* answered with success and a role of the operation's allow-list; otherwise it
\* ends with 503 (service unreachable), the service's own status code, or 403
\* (role, or missing role, not allowed), with no connection opened and the
\* table untouched. The table changes only in a commit of a request that holds
\* a connection.
C7_RoleGate ==
  [][/\ \A p \in Procs : C7_Step(p)
     /\ Ingredients' # Ingredients => \E q \in Procs : conn[q] /\ pc[q] = "commit"]_vars

\* A Delete by a caller whose identity answer carries no role has ended in 403
\* without a connection, while records are stored.
C7_Witness ==
  \E p \in Procs :
    /\ pc[p] = "done" /\ op[p] = "delete" /\ result[p].code = 403
    /\ response[p].kind = "ok" /\ response[p].userRole = NoRole
    /\ ~conn[p]
    /\ WithId(Ingredients, ingredient_id[p]) # {}

\* ---------------------------------------------------------------- C8
C8_Labels == {"Not Available", "Low Stock", "Available"}

\* C8: get_status is total on (amount, unit), returns one of the three labels
\* and agrees with classify: every status the handlers compute (pending or
\* stored) is classify(amount, unit), the unit matched case-insensitively and
\* the empty or unrecognized unit taking threshold 1.
C8_Classify ==
  /\ \A r \in Ingredients \cup {txn[p].row : p \in {q \in Procs : txn[q].kind \in {"insert", "update"}}} :
       /\ r.Status \in C8_Labels
       /\ r.Status = ClassifyRef(r.Amount, r.Measurement)

\* A record with unit "KG" and an amount equal to the kg threshold (0.5) is
\* stored with status "Low Stock".
C8_Witness ==
  \E r \in Ingredients :
    r.Measurement = u_KG /\ r.Amount = 5 /\ r.Status = "Low Stock"

\* ---------------------------------------------------------------- C9
\* C9: whatever the interleaving of requests, every stored record's status is
\* the classification of its own amount and unit.
C9_StatusDerived ==
  \A r \in Ingredients : r.Status = get_status(r.Amount, r.Measurement)

\* An Update has rewritten a record whose status is now "Low Stock" while a
\* Create of the other request is in progress.
C9_Witness ==
  \E p, q \in Procs :
    /\ pc[p] = "done" /\ op[p] = "update" /\ result[p].code = 200
    /\ \E r \in result[p].body : r \in Ingredients /\ r.Status = "Low Stock"
    /\ op[q] = "create" /\ pc[q] = "commit"

\* --------------------------------------------------------------- C10
C10_Step(p) ==
  /\ conn'[p] /\ ~conn[p] => openConns' = openConns + 1
  /\ pc[p] = "finally" /\ pc'[p] # "finally" =>
       /\ pc'[p] = "done"
       /\ result'[p] = result[p]
       /\ IF op[p] = "delete"
            THEN openConns' = openConns /\ result[p].code \in {200, 404}
            ELSE openConns' = openConns - 1

\* C10: List, Create and Update close their connection on every path; a Delete
\* that opened a connection returns its success or Not-Found answer with that
\* connection still open.
C10_Connections ==
  [][\A p \in Procs : C10_Step(p)]_vars

====
